---- MODULE Spec2Model ----
(***************************************************************************)
(* A model of OLAPScript's aggregate function library (src/src/aggr.js)    *)
(* and of its expression trees and scalar library (src/src/expr.js).       *)
(*                                                                         *)
(* Javascript values are tagged records: null, undefined, numbers (exact   *)
(* rationals n/d, d = 0 standing for the non-finite results of a division  *)
(* by zero), strings, booleans and references to array objects.            *)
(***************************************************************************)
EXTENDS Integers, Sequences, FiniteSets, TLC

VARIABLES
  ctorArgs,    \* the args the aggregate's constructor was called with
  aggr,        \* the aggregate instance (class, args and, for StringAgg, sep)
  state,       \* the accumulator made by aggr.initialize()
  hist,        \* the values passed to update(state, val) so far, in call order
  result,      \* what the last finalize(state) returned
  finalized,   \* TRUE when no update came after the last finalize
  heap,        \* the array objects in existence: array reference -> elements
  stateB,      \* a second accumulator made by aggr.initialize() on the instance
  histB,       \* the values passed to update(stateB, val) so far
  namespace,   \* the namespace handed to evaluate: own property name -> Column
  selection,   \* the selection handed to evaluate: row ids, 0-based
  expr,        \* the expression tree evaluate is called on
  outcome,     \* what the latest evaluate did: returned a value, or threw
  evals,       \* evaluate calls made so far on these inputs
  call,        \* a call of a scalar library function: the function and its args
  callOut      \* what that call did: returned a value, or threw

vars == <<ctorArgs, aggr, state, hist, result, finalized, heap, stateB, histB,
          namespace, selection, expr, outcome, evals, call, callOut>>

aggrVars == <<ctorArgs, aggr, state, hist, result, finalized, heap, stateB, histB>>
accVars == <<ctorArgs, aggr, state, hist, result, finalized, stateB, histB>>
exprVars == <<namespace, selection, expr, outcome, evals>>
callVars == <<call, callOut>>

---------------------------------------------------------------------------
(* Bounds of the model.                                                    *)

MaxUpdates == 3    \* update calls on one accumulator
MaxNum == 4        \* numbers supplied are -1..MaxNum
MaxRows == 2       \* longest column of a namespace
MaxSel == 2        \* longest selection
MaxArgs == 2       \* arguments of a scalar library call, besides f
MaxPairUpdates == 2  \* update calls on each of two accumulators of one instance
MaxEvals == 2      \* evaluate calls on one tree, namespace and selection

---------------------------------------------------------------------------
(* Javascript values.                                                      *)

Null == [t |-> "null"]
Undefined == [t |-> "undefined"]
Bool(b) == [t |-> "boolean", v |-> b]
Str(s) == [t |-> "string", v |-> s]
ArrRef(r) == [t |-> "array", ref |-> r]   \* the array object heap[r]

Abs(n) == IF n < 0 THEN -n ELSE n

RECURSIVE Gcd(_, _)
Gcd(a, b) == IF b = 0 THEN a ELSE Gcd(b, a % b)

\* The number n/d, in lowest terms with d >= 0.
Ratio(n, d) ==
  IF d = 0
    THEN [t |-> "number", n |-> IF n > 0 THEN 1 ELSE IF n < 0 THEN -1 ELSE 0, d |-> 0]
    ELSE LET s == IF d < 0 THEN -1 ELSE 1
             g == Gcd(Abs(n), Abs(d))
         IN  [t |-> "number", n |-> (s * n) \div g, d |-> (s * d) \div g]

Num(n) == [t |-> "number", n |-> n, d |-> 1]

\* a + b on two numbers or two strings.
JsAdd(a, b) ==
  IF a.t = "number" /\ b.t = "number"
    THEN Ratio(a.n * b.d + b.n * a.d, a.d * b.d)
    ELSE Str(a.v \o b.v)

\* ToNumber on null and on numbers: null is 0.
ToNumber(v) == IF v.t = "null" THEN [t |-> "number", n |-> 0, d |-> 1] ELSE v

\* a / b, each null or a number.
JsDiv(a, b) ==
  LET x == ToNumber(a)
      y == ToNumber(b)
  IN  Ratio(x.n * y.d, x.d * y.n)

\* a < b on two finite numbers.
JsLess(a, b) == a.n * b.d < b.n * a.d

\* ToBoolean: what `if (v)`, `!v` and `v || w` test.
Truthy(v) ==
  CASE v.t = "null" -> FALSE
    [] v.t = "undefined" -> FALSE
    [] v.t = "boolean" -> v.v
    [] v.t = "number" -> v.n # 0
    [] v.t = "string" -> v.v # ""
    [] OTHER -> TRUE

\* v == null: true of null and of undefined.
LooseNull(v) == v.t \in {"null", "undefined"}

---------------------------------------------------------------------------
(* Expression nodes, as the constructors of expr.js build them.            *)

\* typeof constant
TypeOf(v) ==
  CASE v.t = "null" -> "object"
    [] v.t = "array" -> "object"
    [] OTHER -> v.t

ConstExpr(constant) ==
  [type |-> "constant", constant |-> constant, datatype |-> Str(TypeOf(constant))]

RefExpr(reference) == [type |-> "reference", reference |-> reference]

FuncExpr(func, args) == [type |-> "function", func |-> func, args |-> args]

---------------------------------------------------------------------------
(* The scalar library of expr.js.  A call either returns a value or throws;*)
(* `applied` lists, in order, the applications f.apply(f, args) that       *)
(* Expr.nullWrapper_ made.                                                 *)

Fn(name) == [t |-> "function", name |-> name]

Return(v) == [status |-> "returned", value |-> v, applied |-> <<>>]
Throw(error) == [status |-> "thrown", error |-> error, applied |-> <<>>]

\* array[i] for a 0-based index: undefined past the end.
At(array, i) == IF i + 1 \in DOMAIN array THEN array[i + 1] ELSE Undefined

\* args.includes(null): SameValueZero, so undefined is not found.
IncludesNull(args) == \E i \in DOMAIN args : args[i] = Null

\* args.reduce((result, arg) => (result && arg), true)
RECURSIVE ReduceAnd(_, _)
ReduceAnd(res, args) ==
  IF args = <<>> THEN res
  ELSE ReduceAnd(IF Truthy(res) THEN Head(args) ELSE res, Tail(args))

\* args.reduce((result, arg) => (result || arg), false)
RECURSIVE ReduceOr(_, _)
ReduceOr(res, args) ==
  IF args = <<>> THEN res
  ELSE ReduceOr(IF Truthy(res) THEN res ELSE Head(args), Tail(args))

\* Expr.and letting a false argument win over a null one.
Expr_and_FalseWins(args) ==
  IF \E i \in DOMAIN args : args[i] = Bool(FALSE) THEN Bool(FALSE)
  ELSE IF IncludesNull(args) THEN Null
  ELSE ReduceAnd(Bool(TRUE), args)

Expr_and(args) == IF IncludesNull(args) THEN Null ELSE ReduceAnd(Bool(TRUE), args)

Expr_or(args) == IF IncludesNull(args) THEN Null ELSE ReduceOr(Bool(FALSE), args)

Expr_not(b) == IF LooseNull(b) THEN Null ELSE Bool(~Truthy(b))

\* String.prototype.trim on the strings of the model.
StringTrim(s) ==
  CASE s = " a" -> "a"
    [] s = "a " -> "a"
    [] s = " " -> ""
    [] OTHER -> s

\* arg => arg.trim(): a TypeError on anything but a string.
ArrowTrim(arg) ==
  IF arg.t = "string" THEN Return(Str(StringTrim(arg.v))) ELSE Throw("TypeError")

\* (a, b) => (a === b ? null : a), a function a caller may wrap.
ArrowNullIf(a, b) == Return(IF a = b THEN Null ELSE a)

RECURSIVE Apply(_, _)

\* Expr.nullWrapper_ calling f although an argument is null.
nullWrapper_AlwaysApplies(args) ==
  LET f == At(args, 0)
      rest == IF args = <<>> THEN <<>> ELSE Tail(args)
  IN  IF f.t # "function"
        THEN Throw("TypeError")
        ELSE [Apply(f, rest) EXCEPT
                !.applied = <<[func |-> f, args |-> rest]>> \o @]

\* Expr.nullWrapper_(f, ...args)
nullWrapper_(args) ==
  LET f == At(args, 0)
      rest == IF args = <<>> THEN <<>> ELSE Tail(args)
  IN  IF IncludesNull(rest)
        THEN Return(Null)
        ELSE IF f.t # "function"
          THEN Throw("TypeError")
          ELSE [Apply(f, rest) EXCEPT
                  !.applied = <<[func |-> f, args |-> rest]>> \o @]

\* f.apply(f, args) for the functions of the model.
Apply(f, args) ==
  CASE f.name = "and" -> Return(Expr_and(args))
    [] f.name = "or" -> Return(Expr_or(args))
    [] f.name = "not" -> Return(Expr_not(At(args, 0)))
    [] f.name = "trim" -> nullWrapper_(<<Fn("arrowTrim"), At(args, 0)>>)
    [] f.name = "arrowTrim" -> ArrowTrim(At(args, 0))
    [] f.name = "arrowNullIf" -> ArrowNullIf(At(args, 0), At(args, 1))
    [] f.name = "nullWrapper_" -> nullWrapper_(args)

---------------------------------------------------------------------------
(* Expression evaluation.  A namespace is a plain object: its own          *)
(* properties are the named Columns, and a property read falls back to     *)
(* Object.prototype.  A Column's data is an array object of the heap, so   *)
(* that two Columns may share one array; evaluate takes the heap it runs   *)
(* on and yields its outcome together with the heap it leaves.             *)

\* new Column(type, data)
Column(type, data) == [t |-> "Column", type |-> type, data |-> data]

\* Names every plain object inherits from Object.prototype.
ObjectPrototype == {"constructor", "toString", "valueOf", "hasOwnProperty"}

\* object[name]
GetProperty(object, name) ==
  IF name \in DOMAIN object THEN object[name]
  ELSE IF name \in ObjectPrototype THEN Fn(name)
  ELSE Undefined

\* A newly created array object holding cells.
NewArray(cells, h) == [ref |-> ArrRef(Len(h) + 1), heap |-> Append(h, cells)]

RECURSIVE MaxLength(_, _, _, _)
MaxLength(ns, names, count, h) ==
  IF names = {} THEN count
  ELSE LET name == CHOOSE n \in names : TRUE
           len == Len(h[ns[name].data.ref])
       IN  MaxLength(ns, names \ {name}, IF len > count THEN len ELSE count, h)

\* The row count taken from the shortest column instead of the longest.
RowCount_Shortest(ns, h) ==
  IF DOMAIN ns = {} THEN 0
  ELSE LET lens == {Len(h[ns[n].data.ref]) : n \in DOMAIN ns}
       IN  CHOOSE l \in lens : \A m \in lens : l <= m

\* Object.keys(namespace).reduce(
\*   (count, name) => Math.max(count, namespace[name].data.length), 0)
RowCount(ns, h) == MaxLength(ns, DOMAIN ns, 0, h)

UnknownColumn(reference) ==
  [status |-> "thrown", error |-> "ReferenceError",
   message |-> "Unknown column: " \o reference, applied |-> <<>>]

RefExpr_evaluate(self, ns, sel, h) ==
  LET res == GetProperty(ns, self.reference)
  IN  [out |-> IF ~Truthy(res) THEN UnknownColumn(self.reference)
               ELSE Return(res),
       heap |-> h]

\* ConstExpr.evaluate sizing the column by the selection.
ConstExpr_evaluate_BySelection(self, ns, sel, h) ==
  LET data == NewArray([i \in 1..Len(sel) |-> self.constant], h)
  IN  [out |-> Return(Column(self.datatype, data.ref)), heap |-> data.heap]

ConstExpr_evaluate(self, ns, sel, h) ==
  LET data == NewArray([i \in 1..RowCount(ns, h) |-> self.constant], h)
  IN  [out |-> Return(Column(self.datatype, data.ref)), heap |-> data.heap]

\* new Array(count).fill(null)
NullArray(count) == [i \in 1..count |-> Null]

\* data[i] = v for a 0-based index; a write past the end lengthens the array.
SetAt(data, i, v) ==
  [k \in 1..(IF i + 1 > Len(data) THEN i + 1 ELSE Len(data)) |->
     IF k = i + 1 THEN v ELSE IF k <= Len(data) THEN data[k] ELSE Undefined]

\* inputs.map(column => column.data[selid]) reading the first row instead.
RowArgs_FirstRow(inputs, selid, h) ==
  [j \in DOMAIN inputs |-> At(h[inputs[j].data.ref], 0)]

\* inputs.map(column => column.data[selid]), every input being a Column.
RowArgs(inputs, selid, h) ==
  [j \in DOMAIN inputs |-> At(h[inputs[j].data.ref], selid)]

\* selection.reduce(function(data, selid) {...}, data): one application of
\* func per selected row, in the selection's order, each result written to
\* the array object data.
RECURSIVE ReduceSelection(_, _, _, _, _, _)
ReduceSelection(func, inputs, sel, data, applied, h) ==
  IF sel = <<>>
    THEN [out |-> [status |-> "returned", value |-> Column(Undefined, data),
                   applied |-> applied],
          heap |-> h]
    ELSE
      IF \E j \in DOMAIN inputs : inputs[j].t # "Column"
        THEN [out |-> [Throw("TypeError") EXCEPT !.applied = applied],
              heap |-> h]
        ELSE
          LET selid == Head(sel)
              args == RowArgs(inputs, selid, h)
              r == Apply(func, args)
              log == Append(applied, [func |-> func, args |-> args, selid |-> selid])
          IN  IF r.status = "thrown"
                THEN [out |-> [status |-> "thrown", error |-> r.error,
                               applied |-> log],
                      heap |-> h]
                ELSE ReduceSelection(func, inputs, Tail(sel), data, log,
                       [h EXCEPT ![data.ref] = SetAt(@, selid, r.value)])

RECURSIVE evaluate(_, _, _, _)

\* this.args.map(arg => arg.evaluate(namespace, selection)): the inputs, or
\* the first throw.
RECURSIVE MapEvaluate(_, _, _, _, _, _)
MapEvaluate(args, ns, sel, inputs, applied, h) ==
  IF args = <<>>
    THEN [out |-> [status |-> "returned", value |-> inputs,
                   applied |-> applied],
          heap |-> h]
    ELSE LET r == evaluate(Head(args), ns, sel, h)
         IN  IF r.out.status = "thrown"
               THEN [out |-> [r.out EXCEPT !.applied = applied \o @],
                     heap |-> r.heap]
               ELSE MapEvaluate(Tail(args), ns, sel,
                                Append(inputs, r.out.value),
                                applied \o r.out.applied, r.heap)

\* FuncExpr.evaluate walking the selection from its last element to its first.
FuncExpr_evaluate_Reversed(self, ns, sel, h) ==
  LET inputs == MapEvaluate(self.args, ns, sel, <<>>, <<>>, h)
      data == NewArray(NullArray(RowCount(ns, inputs.heap)), inputs.heap)
      rev == [k \in 1..Len(sel) |-> sel[Len(sel) + 1 - k]]
  IN  IF inputs.out.status = "thrown"
        THEN inputs
        ELSE ReduceSelection(self.func, inputs.out.value, rev, data.ref,
                             inputs.out.applied, data.heap)

\* FuncExpr.evaluate writing its results into the first input's array
\* instead of a new one.
FuncExpr_evaluate_InPlace(self, ns, sel, h) ==
  LET inputs == MapEvaluate(self.args, ns, sel, <<>>, <<>>, h)
      data == IF inputs.out.value # <<>> /\ inputs.out.value[1].t = "Column"
                THEN [ref |-> inputs.out.value[1].data, heap |-> inputs.heap]
                ELSE NewArray(NullArray(RowCount(ns, inputs.heap)), inputs.heap)
  IN  IF inputs.out.status = "thrown"
        THEN inputs
        ELSE ReduceSelection(self.func, inputs.out.value, sel, data.ref,
                             inputs.out.applied, data.heap)

FuncExpr_evaluate(self, ns, sel, h) ==
  LET inputs == MapEvaluate(self.args, ns, sel, <<>>, <<>>, h)
      data == NewArray(NullArray(RowCount(ns, inputs.heap)), inputs.heap)
  IN  IF inputs.out.status = "thrown"
        THEN inputs
        ELSE ReduceSelection(self.func, inputs.out.value, sel, data.ref,
                             inputs.out.applied, data.heap)

\* node.evaluate(namespace, selection)
evaluate(node, ns, sel, h) ==
  CASE node.type = "constant" -> ConstExpr_evaluate(node, ns, sel, h)
    [] node.type = "reference" -> RefExpr_evaluate(node, ns, sel, h)
    [] node.type = "function" -> FuncExpr_evaluate(node, ns, sel, h)

---------------------------------------------------------------------------
(* The aggregate classes of aggr.js.  An instance is a record; its class   *)
(* selects the methods, as the prototype chain does.                       *)

\* Aggr's constructor: args = args || [], options = options || {}.
Aggr(cls, args) == [cls |-> cls, args |-> args]

\* StringAgg's constructor: the separator is read from args[1]; only args[0]
\* is passed on.
StringAgg(args) ==
  LET arg2 == IF Len(args) >= 2 THEN args[2] ELSE [constant |-> Str(",")]
      constant == IF "constant" \in DOMAIN arg2 THEN arg2.constant ELSE Undefined
      sep == IF Truthy(constant) THEN constant ELSE Str(",")
  IN  [cls |-> "StringAgg", args |-> <<args[1]>>, sep |-> sep]

\* First's and Last's selectors exchanged.
selector_Exchanged(self, a, b) ==
  CASE self.cls = "Min" -> IF JsLess(a, b) THEN a ELSE b
    [] self.cls = "Max" -> IF JsLess(b, a) THEN a ELSE b
    [] self.cls = "First" -> b
    [] self.cls = "Last" -> a
    [] self.cls = "StringAgg" -> JsAdd(JsAdd(a, self.sep), b)

\* StringAgg's selector joining without the separator.
selector_NoSep(self, a, b) ==
  CASE self.cls = "Min" -> IF JsLess(a, b) THEN a ELSE b
    [] self.cls = "Max" -> IF JsLess(b, a) THEN a ELSE b
    [] self.cls = "First" -> a
    [] self.cls = "Last" -> b
    [] self.cls = "StringAgg" -> JsAdd(a, b)

\* The selector a ValueAggr subclass hands to ValueAggr's constructor.
selector(self, a, b) ==
  CASE self.cls = "Min" -> IF JsLess(a, b) THEN a ELSE b
    [] self.cls = "Max" -> IF JsLess(b, a) THEN a ELSE b
    [] self.cls = "First" -> a
    [] self.cls = "Last" -> b
    [] self.cls = "StringAgg" -> JsAdd(JsAdd(a, self.sep), b)

ValueAggrs == {"Min", "Max", "First", "Last", "StringAgg"}

\* initialize(): the fresh accumulator of each class.
initialize(self) ==
  CASE self.cls \in {"CountStar", "Count"} -> [count |-> Num(0)]
    [] self.cls = "Sum" -> [sum |-> Null]
    [] self.cls = "Avg" -> [sum |-> Null, count |-> Num(0)]
    [] self.cls \in ValueAggrs -> [value |-> Null]
    [] self.cls = "ArrayAgg" -> [value |-> Null]

\* CountStar.update assigning instead of incrementing.
CountStar_update_Assign(st) == [st EXCEPT !.count = Num(1)]

CountStar_update(st) == [st EXCEPT !.count = JsAdd(@, Num(1))]

\* Count.update counting every update, null included.
Count_update_All(st, val) == [st EXCEPT !.count = JsAdd(@, Num(1))]

Count_update(st, val) ==
  [st EXCEPT !.count = JsAdd(@, Num(IF val # Null THEN 1 ELSE 0))]

\* Sum.update keeping the latest value instead of adding it.
Sum_update_Assign(st, val) ==
  IF val # Null THEN [st EXCEPT !.sum = val] ELSE st

Sum_update(st, val) ==
  IF val # Null
    THEN IF LooseNull(st.sum)
           THEN [st EXCEPT !.sum = val]
           ELSE [st EXCEPT !.sum = JsAdd(@, val)]
    ELSE st

\* Avg.update counting every update, null included.
Avg_update_CountsNull(st, val) ==
  LET s1 == Sum_update(st, val)
  IN  [s1 EXCEPT !.count = JsAdd(@, Num(1))]

Avg_update(st, val) ==
  LET s1 == Sum_update(st, val)
  IN  [s1 EXCEPT !.count = JsAdd(@, Num(IF val # Null THEN 1 ELSE 0))]

\* ValueAggr.update testing `if (state.value)`: 0 and "" count as no value.
ValueAggr_update_Truthy(self, st, val) ==
  IF val # Null
    THEN IF Truthy(st.value)
           THEN [st EXCEPT !.value = selector(self, @, val)]
           ELSE [st EXCEPT !.value = val]
    ELSE st

ValueAggr_update(self, st, val) ==
  IF val # Null
    THEN IF st.value # Null
           THEN [st EXCEPT !.value = selector(self, @, val)]
           ELSE [st EXCEPT !.value = val]
    ELSE st

\* ArrayAgg.update pushing onto one list shared by every accumulator.
ArrayAgg_update_SharedList(st, val, h) ==
  LET h1 == IF h = <<>> THEN <<<<>>>> ELSE h
  IN  [state |-> [st EXCEPT !.value = ArrRef(1)],
       heap |-> [h1 EXCEPT ![1] = Append(@, val)]]

\* ArrayAgg.update skipping null as the other aggregates do.
ArrayAgg_update_SkipNull(st, val, h) ==
  LET fresh == LooseNull(st.value)
      ref == IF fresh THEN Len(h) + 1 ELSE st.value.ref
      h1 == IF fresh THEN Append(h, <<>>) ELSE h
  IN  IF val = Null
        THEN [state |-> st, heap |-> h]
        ELSE [state |-> [st EXCEPT !.value = ArrRef(ref)],
              heap |-> [h1 EXCEPT ![ref] = Append(@, val)]]

\* ArrayAgg.update allocates the list on the first call and pushes onto it:
\* the accumulator and the heap after the call.
ArrayAgg_update(st, val, h) ==
  LET fresh == LooseNull(st.value)
      ref == IF fresh THEN Len(h) + 1 ELSE st.value.ref
      h1 == IF fresh THEN Append(h, <<>>) ELSE h
  IN  [state |-> [st EXCEPT !.value = ArrRef(ref)],
       heap |-> [h1 EXCEPT ![ref] = Append(@, val)]]

\* update(state, val): the accumulator and the heap after the call.
update(self, st, val, h) ==
  CASE self.cls = "CountStar" -> [state |-> CountStar_update(st), heap |-> h]
    [] self.cls = "Count" -> [state |-> Count_update(st, val), heap |-> h]
    [] self.cls = "Sum" -> [state |-> Sum_update(st, val), heap |-> h]
    [] self.cls = "Avg" -> [state |-> Avg_update(st, val), heap |-> h]
    [] self.cls \in ValueAggrs -> [state |-> ValueAggr_update(self, st, val), heap |-> h]
    [] self.cls = "ArrayAgg" -> ArrayAgg_update(st, val, h)

Avg_finalize(st) ==
  IF Truthy(st.count) THEN JsDiv(st.sum, st.count) ELSE Null

\* finalize(state): the value returned; no class writes to the accumulator.
finalize(self, st) ==
  CASE self.cls \in {"CountStar", "Count"} -> st.count
    [] self.cls = "Sum" -> st.sum
    [] self.cls = "Avg" -> Avg_finalize(st)
    [] self.cls \in ValueAggrs -> st.value
    [] self.cls = "ArrayAgg" -> st.value

---------------------------------------------------------------------------
(* The aggregate driver: one instance, its accumulator, and the calls a    *)
(* group-by executor makes on it.                                          *)

NotCalled == [status |-> "none"]

\* The values a driver feeds to update, by the aggregate's class.
NumVals == {Null} \cup {Num(n) : n \in -1..MaxNum}
StrVals == {Null, Str(""), Str("a"), Str("b")}
AnyVals == {Null, Undefined, Num(0), Num(1), Str(""), Str("a"), Bool(FALSE)}

Inputs(cls) ==
  CASE cls \in {"Sum", "Avg", "Min", "Max"} -> NumVals
    [] cls = "StringAgg" -> StrVals
    [] OTHER -> AnyVals

\* The separators a StringAgg is constructed with.
SepConstants == {Str(""), Str("-"), Str(","), Str("ab")}

\* The constructor calls: class and args.
Constructions ==
  {[cls |-> c, args |-> <<RefExpr("x")>>] :
      c \in {"Count", "Sum", "Avg", "Min", "Max", "First", "Last",
             "ArrayAgg", "StringAgg"}}
  \cup {[cls |-> "CountStar", args |-> <<>>]}
  \cup {[cls |-> "StringAgg", args |-> <<RefExpr("x"), ConstExpr(c)>>] :
          c \in SepConstants}
  \cup {[cls |-> "StringAgg", args |-> <<RefExpr("x"), RefExpr("sep")>>]}

\* new cls(args)
Construct(cls, args) ==
  IF cls = "StringAgg" THEN StringAgg(args) ELSE Aggr(cls, args)

IdleExpr ==
  /\ namespace = <<>>
  /\ selection = <<>>
  /\ expr = ConstExpr(Null)
  /\ outcome = NotCalled
  /\ evals = 0

IdleCall ==
  /\ call = [func |-> Null, args |-> <<>>]
  /\ callOut = NotCalled

InitAggr ==
  /\ \E c \in Constructions :
       /\ ctorArgs = c.args
       /\ aggr = Construct(c.cls, c.args)
  /\ state = initialize(aggr)
  /\ hist = <<>>
  /\ result = Undefined
  /\ finalized = FALSE
  /\ heap = <<>>
  /\ stateB = <<>>
  /\ histB = <<>>
  /\ IdleExpr
  /\ IdleCall

\* The driver starts a new group: a fresh accumulator from initialize().
Initialize ==
  /\ hist # <<>>
  /\ state' = initialize(aggr)
  /\ hist' = <<>>
  /\ result' = Undefined
  /\ finalized' = FALSE
  /\ heap' = <<>>
  /\ UNCHANGED <<ctorArgs, aggr, stateB, histB, exprVars, callVars>>

\* aggr.update(state, val)
Update(val) ==
  /\ Len(hist) < MaxUpdates
  /\ LET u == update(aggr, state, val, heap)
     IN  /\ state' = u.state
         /\ heap' = u.heap
  /\ hist' = Append(hist, val)
  /\ finalized' = FALSE
  /\ UNCHANGED <<ctorArgs, aggr, result, stateB, histB, exprVars, callVars>>

\* A finalize that hands out the result and resets the accumulator.
Finalize_Resets ==
  /\ result' = finalize(aggr, state)
  /\ finalized' = TRUE
  /\ state' = initialize(aggr)
  /\ UNCHANGED <<ctorArgs, aggr, hist, heap, stateB, histB, exprVars, callVars>>

\* result = aggr.finalize(state)
Finalize ==
  /\ result' = finalize(aggr, state)
  /\ finalized' = TRUE
  /\ UNCHANGED <<ctorArgs, aggr, state, hist, heap, stateB, histB,
                 exprVars, callVars>>

NextAggr ==
  \/ Initialize
  \/ \E val \in Inputs(aggr.cls) : Update(val)
  \/ Finalize

SpecAggr == InitAggr /\ [][NextAggr]_vars

---------------------------------------------------------------------------
(* A driver that keeps two groups on one instance: two accumulators from   *)
(* two initialize() calls, updated in any interleaving.                    *)

PairVals == {Null, Num(1), Num(2), Str("a"), Str("b")}

PairInputs(cls) == Inputs(cls) \cap PairVals

InitPair ==
  /\ \E c \in Constructions :
       /\ ctorArgs = c.args
       /\ aggr = Construct(c.cls, c.args)
  /\ state = initialize(aggr)
  /\ stateB = initialize(aggr)
  /\ hist = <<>>
  /\ histB = <<>>
  /\ result = Undefined
  /\ finalized = FALSE
  /\ heap = <<>>
  /\ IdleExpr
  /\ IdleCall

\* aggr.update(state, val)
UpdateA(val) ==
  /\ Len(hist) < MaxPairUpdates
  /\ LET u == update(aggr, state, val, heap)
     IN  /\ state' = u.state
         /\ heap' = u.heap
  /\ hist' = Append(hist, val)
  /\ UNCHANGED <<ctorArgs, aggr, result, finalized, stateB, histB,
                 exprVars, callVars>>

\* aggr.update(stateB, val)
UpdateB(val) ==
  /\ Len(histB) < MaxPairUpdates
  /\ LET u == update(aggr, stateB, val, heap)
     IN  /\ stateB' = u.state
         /\ heap' = u.heap
  /\ histB' = Append(histB, val)
  /\ UNCHANGED <<ctorArgs, aggr, result, finalized, state, hist,
                 exprVars, callVars>>

NextPair ==
  \/ \E val \in PairInputs(aggr.cls) : UpdateA(val)
  \/ \E val \in PairInputs(aggr.cls) : UpdateB(val)

SpecPair == InitPair /\ [][NextPair]_vars

---------------------------------------------------------------------------
(* The caller of evaluate: a namespace, an in-bounds selection and an      *)
(* expression tree, then one call of evaluate on them.                     *)

IdleAcc ==
  /\ ctorArgs = <<>>
  /\ aggr = Aggr("Aggr", <<>>)
  /\ state = <<>>
  /\ hist = <<>>
  /\ result = Undefined
  /\ finalized = FALSE
  /\ stateB = <<>>
  /\ histB = <<>>

IdleAggr == IdleAcc /\ heap = <<>>

\* All sequences over S of length at most n.
SeqsUpTo(S, n) == UNION {[1..k -> S] : k \in 0..n}

CellVals == {Null, Bool(TRUE), Bool(FALSE)}

\* The cells of column "a" are any; column "b" is all true, of any length.
CellsOf(name) ==
  IF name = "a" THEN SeqsUpTo(CellVals, MaxRows)
  ELSE SeqsUpTo({Bool(TRUE)}, MaxRows)

TypeOfColumn(name) == IF name = "a" THEN Undefined ELSE Str("boolean")

\* The cells of the columns of a namespace, by name.
Namespaces ==
  UNION {{cells \in [S -> CellsOf("a") \cup CellsOf("b")] :
            \A n \in S : cells[n] \in CellsOf(n)} : S \in SUBSET {"a", "b"}}

\* The names of a namespace in the order its columns were created.
Created(cells) == SelectSeq(<<"a", "b">>, LAMBDA n : n \in DOMAIN cells)

\* The array objects of the columns of a namespace.
ArraysOf(cells) == [k \in DOMAIN Created(cells) |-> cells[Created(cells)[k]]]

\* The namespace object: each name bound to a Column over its own array.
NamespaceOf(cells) ==
  [n \in DOMAIN cells |->
     Column(TypeOfColumn(n),
            ArrRef(CHOOSE k \in DOMAIN Created(cells) : Created(cells)[k] = n))]

\* The names a RefExpr refers to: "c" is in no namespace, "constructor" is
\* no column either.
RefNames == {"a", "b", "c", "constructor"}

Leaves ==
  {ConstExpr(Bool(TRUE)), ConstExpr(Null)} \cup {RefExpr(x) : x \in RefNames}

Exprs ==
  Leaves
  \cup {FuncExpr(Fn("and"), <<>>)}
  \cup {FuncExpr(Fn(f), <<l>>) : f \in {"not", "trim"}, l \in Leaves}
  \cup {FuncExpr(Fn(f), <<RefExpr(x), l>>) :
          f \in {"and", "or"}, x \in {"a", "c"}, l \in Leaves}
  \cup {FuncExpr(Fn("or"), <<FuncExpr(Fn("not"), <<RefExpr("a")>>), l>>) :
          l \in {ConstExpr(Bool(TRUE)), RefExpr("b"), RefExpr("c")}}

InitExpr ==
  /\ \E cells \in Namespaces :
       /\ heap = ArraysOf(cells)
       /\ namespace = NamespaceOf(cells)
  /\ selection \in SeqsUpTo(0..(RowCount(namespace, heap) - 1), MaxSel)
  /\ expr \in Exprs
  /\ outcome = NotCalled
  /\ evals = 0
  /\ IdleAcc
  /\ IdleCall

\* outcome = expr.evaluate(namespace, selection)
Evaluate ==
  /\ evals < MaxEvals
  /\ LET r == evaluate(expr, namespace, selection, heap)
     IN  /\ outcome' = r.out
         /\ heap' = r.heap
  /\ evals' = evals + 1
  /\ UNCHANGED <<namespace, selection, expr, accVars, callVars>>

NextExpr == Evaluate

SpecExpr == InitExpr /\ [][NextExpr]_vars

---------------------------------------------------------------------------
(* A caller of the scalar library: one call of a library function.         *)

ScalarVals == {Null, Undefined, Bool(TRUE), Bool(FALSE), Str(" a")}

\* The functions handed to Expr.nullWrapper_ as f.
WrappedFns == {Fn("not"), Fn("and"), Fn("or"), Fn("arrowTrim"), Fn("arrowNullIf")}

Calls ==
  {[func |-> Fn(f), args |-> a] :
     f \in {"and", "or", "not", "trim"}, a \in SeqsUpTo(ScalarVals, MaxArgs)}
  \cup {[func |-> Fn("nullWrapper_"), args |-> <<f>> \o a] :
          f \in WrappedFns, a \in SeqsUpTo(ScalarVals, MaxArgs)}

InitCall ==
  /\ call \in Calls
  /\ callOut = NotCalled
  /\ IdleAggr
  /\ IdleExpr

\* callOut = call.func(...call.args)
Invoke ==
  /\ callOut = NotCalled
  /\ callOut' = Apply(call.func, call.args)
  /\ UNCHANGED <<call, aggrVars, exprVars>>

NextCall == Invoke

SpecCall == InitCall /\ [][NextCall]_vars

---------------------------------------------------------------------------
(* What the aggregates are to return, computed from the update history.    *)

\* The non-null values of a history, in update order.
NonNull(h) == SelectSeq(h, LAMBDA v : v # Null)

Range(s) == {s[i] : i \in DOMAIN s}

RECURSIVE SumOf(_)
SumOf(h) == IF h = <<>> THEN 0 ELSE Head(h).n + SumOf(Tail(h))

Least(S) == CHOOSE x \in S : \A y \in S : x <= y
Greatest(S) == CHOOSE x \in S : \A y \in S : x >= y

\* s[1] sep s[2] sep ... s[n], for n >= 1 strings.
RECURSIVE Joined(_, _)
Joined(h, sep) ==
  IF Len(h) = 1 THEN Head(h).v ELSE Head(h).v \o sep \o Joined(Tail(h), sep)

---------------------------------------------------------------------------
(* Claims about the aggregates, under SpecAggr.                            *)

\* C5: Avg's finalize returns (sum of the non-null values) / (number of
\* non-null values) when a non-null value was supplied, and null when the
\* updates were none or all null.
AvgIsMeanOfNonNull ==
  (aggr.cls = "Avg" /\ finalized) =>
    result = IF NonNull(hist) = <<>>
               THEN Null
               ELSE Ratio(SumOf(NonNull(hist)), Len(NonNull(hist)))

\* C5 witness: updates [2, null, 4] finalize to 3.
AvgWitness ==
  /\ aggr.cls = "Avg" /\ finalized
  /\ hist = <<Num(2), Null, Num(4)>>
  /\ result = Num(3)

StringAggDefaultJoin ==
  (aggr.cls = "StringAgg" /\ Len(ctorArgs) = 1 /\ finalized) =>
    result = IF NonNull(hist) = <<>>
               THEN Null
               ELSE Str(Joined(NonNull(hist), ","))

\* C7 witness: ["a", null, "b"] finalize to "a,b".
StringAggDefaultWitness ==
  /\ aggr.cls = "StringAgg" /\ Len(ctorArgs) = 1 /\ finalized
  /\ hist = <<Str("a"), Null, Str("b")>>
  /\ result = Str("a,b")

\* C8: a StringAgg constructed with a constant expression as its second
\* argument joins with that constant's string, for every constant string.
StringAggUsesGivenSep ==
  (/\ aggr.cls = "StringAgg" /\ finalized
   /\ Len(ctorArgs) = 2 /\ ctorArgs[2].type = "constant"
   /\ NonNull(hist) # <<>>) =>
    result = Str(Joined(NonNull(hist), ctorArgs[2].constant.v))

\* C9: ArrayAgg's finalize returns the list of all the values supplied, in
\* update order and nulls included, and null when update was never called.
ArrayAggKeepsAll ==
  (aggr.cls = "ArrayAgg" /\ finalized) =>
    IF hist = <<>>
      THEN result = Null
      ELSE /\ result.t = "array"
           /\ result.ref \in DOMAIN heap
           /\ heap[result.ref] = hist

\* C9 witness: three updates with a null in the middle yield three elements.
ArrayAggWitness ==
  /\ aggr.cls = "ArrayAgg" /\ finalized
  /\ hist = <<Num(1), Null, Num(0)>>
  /\ result.t = "array" /\ Len(heap[result.ref]) = 3

\* C10: CountStar's finalize returns the number of update calls made, 0
\* before any.
CountStarCountsCalls ==
  (aggr.cls = "CountStar" /\ finalized) => result = Num(Len(hist))

\* C10 witness: updates with null and with no argument are counted.
CountStarWitness ==
  /\ aggr.cls = "CountStar" /\ finalized
  /\ hist = <<Null, Undefined>>
  /\ result = Num(2)

\* C13: Sum's finalize returns the sum of the non-null values supplied (0
\* when they sum to 0) and null when none was supplied; a null update leaves
\* the running sum as it was.
SumOfNonNull ==
  (aggr.cls = "Sum" /\ finalized) =>
    result = IF NonNull(hist) = <<>> THEN Null ELSE Num(SumOf(NonNull(hist)))

\* C13 witness: [0, null, 1] sum to 1, and [-1, 1] sum to 0, not to null.
SumWitness ==
  /\ aggr.cls = "Sum" /\ finalized
  /\ \/ hist = <<Num(0), Null, Num(1)>> /\ result = Num(1)
     \/ hist = <<Num(-1), Num(1)>> /\ result = Num(0)

\* C14: Count's finalize returns the number of updates whose value was not
\* null.
CountCountsNonNull ==
  (aggr.cls = "Count" /\ finalized) => result = Num(Len(NonNull(hist)))

\* C14 witness: of three updates one is null, two are counted.
CountWitness ==
  /\ aggr.cls = "Count" /\ finalized
  /\ hist = <<Num(0), Null, Str("a")>>
  /\ result = Num(2)

\* C15: First's (Last's) finalize returns the earliest (latest) non-null
\* value in update order, and null when none was supplied.
FirstLastOfNonNull ==
  (aggr.cls \in {"First", "Last"} /\ finalized) =>
    LET h == NonNull(hist)
    IN  result = IF h = <<>> THEN Null
                 ELSE IF aggr.cls = "First" THEN h[1]
                 ELSE h[Len(h)]

\* C15 witness: First over [null, 0, 1] keeps 0 through the later update.
FirstLastWitness ==
  /\ aggr.cls = "First" /\ finalized
  /\ hist = <<Null, Num(0), Num(1)>>
  /\ result = Num(0)

\* The accumulator and heap that the updates of a history alone produce.
RECURSIVE Replay(_)
Replay(h) ==
  IF h = <<>>
    THEN [state |-> initialize(aggr), heap |-> <<>>]
    ELSE LET before == Replay(SubSeq(h, 1, Len(h) - 1))
         IN  update(aggr, before.state, h[Len(h)], before.heap)

\* C11: finalize leaves the accumulator as it was, a second finalize with no
\* update in between returns the same result, and an update after a finalize
\* is incorporated as if the finalize had not happened.
FinalizeReadsOnly ==
  /\ [][finalized' =>
          (/\ state' = state /\ heap' = heap /\ hist' = hist
           /\ (finalized => result' = result))]_vars
  /\ [](state = Replay(hist).state /\ heap = Replay(hist).heap)

\* C11 witness: Avg finalized after [2], giving 2, and then updated with 4.
FinalizeWitness ==
  /\ aggr.cls = "Avg" /\ ~finalized
  /\ result = Num(2)
  /\ hist = <<Num(2), Num(4)>>
  /\ state = [sum |-> Num(6), count |-> Num(2)]

---------------------------------------------------------------------------
(* Claims about two accumulators of one instance, under SpecPair.          *)

\* What finalize shows of an accumulator: the value and, of a list, its
\* elements.
Observed(st, h) ==
  LET v == finalize(aggr, st)
  IN  [value |-> v, elements |-> IF v.t = "array" THEN h[v.ref] ELSE <<>>]

\* A step without an update on an accumulator leaves it, and what finalize
\* shows of it, as they were.
OthersUntouched ==
  /\ (histB' = histB) =>
       (/\ stateB' = stateB
        /\ Observed(stateB', heap') = Observed(stateB, heap))
  /\ (hist' = hist) =>
       (/\ state' = state
        /\ Observed(state', heap') = Observed(state, heap))

\* C12: an update on one of two accumulators of an instance changes neither
\* the other accumulator nor what finalize returns for it, and two ArrayAgg
\* accumulators hold distinct lists.
AccumulatorsIndependent ==
  /\ [][OthersUntouched]_vars
  /\ []((aggr.cls = "ArrayAgg" /\ hist # <<>> /\ histB # <<>>) =>
          state.value.ref # stateB.value.ref)

\* C12 witness: two ArrayAgg accumulators, each holding its own updates.
AccumulatorsWitness ==
  /\ aggr.cls = "ArrayAgg"
  /\ hist = <<Num(1), Str("a")>> /\ histB = <<Null>>
  /\ heap[state.value.ref] = hist
  /\ heap[stateB.value.ref] = histB

---------------------------------------------------------------------------
(* Claims about expression evaluation, under SpecExpr.                     *)

\* The cells of a Column now.
Data(column) == heap[column.data.ref]

\* The cells of the Column an evaluation returned, in the heap it left.
Cells(r) == r.heap[r.out.value.data.ref]

\* C1: the column a FuncExpr returns holds null at every index not in the
\* selection and func(arg1[i], ..., argk[i]) at every index i in it, argj
\* being the column the j-th argument evaluates to.
FuncExprRowByRow ==
  (expr.type = "function" /\ outcome.status = "returned") =>
    LET data == Data(outcome.value)
        arg(j) == evaluate(expr.args[j], namespace, selection, heap)
    IN  \A i \in 0..(Len(data) - 1) :
          IF i \in Range(selection)
            THEN LET r == Apply(expr.func,
                                [j \in DOMAIN expr.args |-> At(Cells(arg(j)), i)])
                 IN  r.status = "returned" /\ data[i + 1] = r.value
            ELSE data[i + 1] = Null

\* C1 witness: and(a, b) over two rows with only row 1 selected: row 0 stays
\* null and row 1 holds and(a[1], b[1]).
FuncExprWitness ==
  /\ expr = FuncExpr(Fn("and"), <<RefExpr("a"), RefExpr("b")>>)
  /\ outcome.status = "returned"
  /\ DOMAIN namespace = {"a", "b"}
  /\ selection = <<1>>
  /\ Data(outcome.value) = <<Null, Bool(TRUE)>>
  /\ Data(namespace["a"]) = <<Bool(FALSE), Bool(TRUE)>>

\* C2: RefExpr(x).evaluate throws the unknown-column error if and only if x
\* is not a key of the namespace, and otherwise returns the column N[x].
RefExprThrowsIffNotAKey ==
  (expr.type = "reference" /\ outcome # NotCalled) =>
    IF expr.reference \in DOMAIN namespace
      THEN outcome.status = "returned"
           /\ outcome.value = namespace[expr.reference]
      ELSE outcome.status = "thrown" /\ outcome.error = "ReferenceError"

\* C3: ConstExpr(c).evaluate returns a column as long as the longest column
\* of the namespace (0 without columns), every entry equal to c, whatever
\* the selection.
ConstExprFillsEveryRow ==
  (expr.type = "constant" /\ outcome # NotCalled) =>
    /\ outcome.status = "returned"
    /\ LET data == Data(outcome.value)
       IN  /\ \A n \in DOMAIN namespace : Len(Data(namespace[n])) <= Len(data)
           /\ \/ \E n \in DOMAIN namespace : Len(Data(namespace[n])) = Len(data)
              \/ DOMAIN namespace = {} /\ Len(data) = 0
           /\ \A i \in DOMAIN data : data[i] = expr.constant

\* C3 witness: two columns of different lengths and a shorter selection.
ConstExprWitness ==
  /\ expr = ConstExpr(Bool(TRUE))
  /\ outcome.status = "returned"
  /\ DOMAIN namespace = {"a", "b"}
  /\ Len(Data(namespace["a"])) = 1 /\ Len(Data(namespace["b"])) = 2
  /\ selection = <<0>>
  /\ Data(outcome.value) = <<Bool(TRUE), Bool(TRUE)>>

\* The claimed condition for node.evaluate(namespace, selection) to raise: a
\* reference below it names no column of the namespace, or a function below
\* it raises on a selected row.
RECURSIVE Raises(_)
Raises(node) ==
  CASE node.type = "constant" -> FALSE
    [] node.type = "reference" -> node.reference \notin DOMAIN namespace
    [] node.type = "function" ->
         \/ \E j \in DOMAIN node.args : Raises(node.args[j])
         \/ \E i \in Range(selection) :
              Apply(node.func,
                    [j \in DOMAIN node.args |->
                       At(Cells(evaluate(node.args[j], namespace, selection,
                                         heap)), i)]).status = "thrown"

\* C17: evaluate raises whenever a reference anywhere in the tree names a
\* column absent from the namespace or func raises on a selected row, and
\* otherwise returns a column.
EvaluateRaisesOrCompletes ==
  outcome # NotCalled =>
    IF Raises(expr)
      THEN outcome.status = "thrown"
      ELSE outcome.status = "returned" /\ outcome.value.t = "Column"

\* What an outcome says once the Column it returned is read in heap h.
Contents(out, h) ==
  IF out.status = "returned" /\ out.value.t = "Column"
    THEN [out EXCEPT !.value.data = h[@.ref]]
    ELSE out

\* One call of evaluate, seen from its caller.
EvaluateKeepsInputs ==
  /\ namespace' = namespace /\ selection' = selection /\ expr' = expr
  /\ \A r \in DOMAIN heap : heap'[r] = heap[r]
  /\ (expr.type = "function" /\ outcome'.status = "returned") =>
       LET inputs == MapEvaluate(expr.args, namespace, selection,
                                 <<>>, <<>>, heap).out.value
       IN  /\ outcome'.value.data.ref \notin DOMAIN heap
           /\ \A j \in DOMAIN inputs :
                inputs[j].t = "Column" => inputs[j].data # outcome'.value.data
  /\ (outcome # NotCalled) =>
       Contents(outcome', heap') = Contents(outcome, heap)

\* C18: evaluate leaves the namespace mapping, every array that existed
\* before the call (the data of the namespace's columns among them), the
\* selection and the tree as they were, whether it returns or raises; the
\* Column a FuncExpr returns is over an array that did not exist before and
\* is none of its inputs' arrays; and a repeated evaluation on the same
\* inputs gives the same result as the one before.
EvaluateFrame == [][(evals' # evals) => EvaluateKeepsInputs]_vars

\* C18 witness: not(a) evaluated twice over row 0: a still holds true and
\* each evaluation returned false in an array of its own.
EvaluateFrameWitness ==
  /\ evals = 2
  /\ expr = FuncExpr(Fn("not"), <<RefExpr("a")>>)
  /\ selection = <<0>>
  /\ DOMAIN namespace = {"a"}
  /\ namespace["a"].data = ArrRef(1)
  /\ heap = << <<Bool(TRUE)>>, <<Bool(FALSE)>>, <<Bool(FALSE)>> >>
  /\ outcome.status = "returned"
  /\ outcome.value.data = ArrRef(3)

\* C19: the column a FuncExpr returns is as long as the longest column of
\* the namespace, referenced or not, whatever the in-bounds selection, and
\* empty when the namespace has no columns.
FuncExprLengthIsRowCount ==
  (expr.type = "function" /\ outcome.status = "returned") =>
    LET len == Len(Data(outcome.value))
    IN  /\ \A n \in DOMAIN namespace : Len(Data(namespace[n])) <= len
        /\ \/ \E n \in DOMAIN namespace : Len(Data(namespace[n])) = len
           \/ DOMAIN namespace = {} /\ len = 0

\* C19 witness: not(a) with a shorter than the unreferenced b and nothing
\* selected returns two rows.
FuncExprLengthWitness ==
  /\ expr = FuncExpr(Fn("not"), <<RefExpr("a")>>)
  /\ DOMAIN namespace = {"a", "b"}
  /\ Len(Data(namespace["a"])) = 1 /\ Len(Data(namespace["b"])) = 2
  /\ selection = <<>>
  /\ outcome.status = "returned"
  /\ Data(outcome.value) = <<Null, Null>>

\* The invocations made while the arguments are evaluated, in order, up to
\* the first argument that raises.
RECURSIVE ArgsLog(_)
ArgsLog(args) ==
  IF args = <<>> THEN [ok |-> TRUE, log |-> <<>>]
  ELSE LET r == evaluate(Head(args), namespace, selection, heap).out
       IN  IF r.status = "thrown" THEN [ok |-> FALSE, log |-> r.applied]
           ELSE LET rest == ArgsLog(Tail(args))
                IN  [ok |-> rest.ok, log |-> r.applied \o rest.log]

\* The last position of the selection that holds row i.
LastOf(i) ==
  CHOOSE k \in DOMAIN selection :
    selection[k] = i /\ \A m \in DOMAIN selection : selection[m] = i => m <= k

\* C20: in one FuncExpr.evaluate every invocation made for the arguments
\* precedes the node's own; its own are one per selection element, in the
\* selection's order, duplicates included; and the output at a selected index
\* holds the result of the last invocation for that index.
FuncExprSinglePass ==
  (expr.type = "function" /\ outcome # NotCalled) =>
    LET pre == ArgsLog(expr.args)
        n == Len(pre.log)
        all == outcome.applied
        own == SubSeq(all, n + 1, Len(all))
    IN  /\ Len(all) >= n
        /\ SubSeq(all, 1, n) = pre.log
        /\ (~pre.ok) => (own = <<>> /\ outcome.status = "thrown")
        /\ Len(own) <= Len(selection)
        /\ \A k \in DOMAIN own :
             own[k].selid = selection[k] /\ own[k].func = expr.func
        /\ (outcome.status = "returned") =>
             /\ Len(own) = Len(selection)
             /\ \A i \in Range(selection) :
                  Data(outcome.value)[i + 1]
                    = Apply(expr.func, own[LastOf(i)].args).value

\* C20 witness: or(not(a), true) over rows 1 then 0: both rows of not(a)
\* are computed before or is applied, to row 1 and then to row 0.
FuncExprSinglePassWitness ==
  /\ expr = FuncExpr(Fn("or"), <<FuncExpr(Fn("not"), <<RefExpr("a")>>),
                                  ConstExpr(Bool(TRUE))>>)
  /\ selection = <<1, 0>>
  /\ outcome.status = "returned"
  /\ Len(outcome.applied) = 4
  /\ outcome.applied[2].func = Fn("not") /\ outcome.applied[3].func = Fn("or")
  /\ outcome.applied[3].selid = 1 /\ outcome.applied[4].selid = 0

---------------------------------------------------------------------------
(* Claims about the scalar library, under SpecCall.                        *)

WrapperCalled == call.func = Fn("nullWrapper_") /\ callOut # NotCalled

\* C4 as stated: nullWrapper_(f, args...) returns null if and only if an
\* argument is null.
NullWrapperNullIffNullArg ==
  WrapperCalled =>
    ((callOut.status = "returned" /\ callOut.value = Null)
       <=> IncludesNull(Tail(call.args)))

\* C4 as amended: with a null argument nullWrapper_ returns null and does not
\* invoke f; otherwise it invokes f once on the arguments and returns or
\* throws what f does, which may be null.
NullWrapperShortCircuits ==
  WrapperCalled =>
    LET f == Head(call.args)
        rest == Tail(call.args)
    IN  IF IncludesNull(rest)
          THEN callOut = Return(Null)
          ELSE /\ callOut.applied = <<[func |-> f, args |-> rest]>>
               /\ callOut.status = Apply(f, rest).status
               /\ callOut.status = "returned" =>
                    callOut.value = Apply(f, rest).value

ThreeValued == {Bool(TRUE), Bool(FALSE), Null}

\* C16: over true, false and null, and/or return null whenever an argument
\* is null, and otherwise the conjunction/disjunction of the arguments, true
\* and false for none; not(b) is null for null and the negation otherwise.
ThreeValuedLogic ==
  (callOut # NotCalled /\ Range(call.args) \subseteq ThreeValued) =>
    LET a == call.args
        bools == {a[i].v : i \in {j \in DOMAIN a : a[j] # Null}}
    IN  /\ call.func = Fn("and") =>
             callOut = Return(IF Null \in Range(a) THEN Null
                              ELSE Bool(FALSE \notin bools))
        /\ call.func = Fn("or") =>
             callOut = Return(IF Null \in Range(a) THEN Null
                              ELSE Bool(TRUE \in bools))
        /\ (call.func = Fn("not") /\ Len(a) = 1) =>
             callOut = Return(IF a[1] = Null THEN Null ELSE Bool(~a[1].v))

\* C16 witness: and(false, null) is null, not false.
ThreeValuedWitness ==
  /\ call = [func |-> Fn("and"), args |-> <<Bool(FALSE), Null>>]
  /\ callOut = Return(Null)

\* C4 witness: a null argument beside a non-null one, f not invoked.
NullWrapperWitness ==
  /\ WrapperCalled
  /\ call.args = <<Fn("arrowTrim"), Str(" a"), Null>>
  /\ callOut.applied = <<>>
  /\ callOut.value = Null

====
